---------------------------- MODULE Spec2Model ----------------------------
(***************************************************************************)
(* Model of src/src/parser/parser.c: the parse driver raw_parser, the      *)
(* lookahead filter base_yylex, the session parameters set by              *)
(* parser_set_param (with parse_version) and the character length query    *)
(* pg_mblen.                                                               *)
(*                                                                         *)
(* The flex scanner (core_yylex) and the bison grammar (base_yyparse) are  *)
(* external: the scanner is a cursor over a finite raw token stream, the   *)
(* grammar is a client that requests tokens one at a time and may, at any  *)
(* point, store a tree, return zero or non-zero, or raise an error.        *)
(***************************************************************************)
EXTENDS Integers, Sequences, FiniteSets

VARIABLES
    raw,                 \* kinds of the raw tokens core_yylex has handed out in this invocation
    invocation,          \* number of raw_parser calls started so far
    pc,                  \* "idle", "parsing" (inside base_yyparse) or "returned"
    scanpos,             \* scanner cursor: raw tokens handed out by core_yylex
    have_lookahead,      \* yyextra.have_lookahead
    lookahead_token,     \* yyextra.lookahead_token
    lookahead_yylval,    \* yyextra.lookahead_yylval
    lookahead_yylloc,    \* yyextra.lookahead_yylloc
    out,                 \* the base_yylex calls of this invocation, in order: what each
                         \* returned (token, lval, lloc) and what it did (first, last:
                         \* the raw positions it used up; pulls: its core_yylex calls;
                         \* buffered: it began with a buffered token; kept: it left one)
    yyextra_parsetree,   \* yyextra.parsetree
    parsetree,           \* the global List *parsetree
    yyresult,            \* value returned by base_yyparse, NoResult while it has not
    result,              \* value raw_parser returned, NoReturn while it has not
    in_parser_context,   \* static bool in_parser_context
    scanner_finished,    \* scanner_finish calls on the current scanner
    error_caught,        \* the PG_CATCH block ran in this invocation
    stale_lookahead,     \* have_lookahead as the previous invocation left it
    PG_exception_stack,  \* whose sigjmp_buf an error is delivered to: HostHandler, or
                         \* the number of the raw_parser invocation that declared it
    save_exception_stack,\* PG_TRY's local copy of PG_exception_stack as it found it,
                         \* OutOfScope outside raw_parser
    server_version_num,
    server_encoding,
    standard_conforming_strings,
    versionString,       \* the value the host passes for "server_version"
    version_set,         \* parser_set_param("server_version", versionString) was called
    param_name,          \* name given to the last parser_set_param call, "" before any
    param_value,         \* value given to that call
    mbstr,               \* first byte given to the last pg_mblen call
    mblen_encoding,      \* GetDatabaseEncoding() when that call was made
    mblen_result         \* value the last pg_mblen call returned, 0 before any call

filterVars == <<scanpos, have_lookahead, lookahead_token, lookahead_yylval,
                lookahead_yylloc, out>>
driverVars == <<raw, invocation, pc, yyextra_parsetree, parsetree, yyresult, result,
                in_parser_context, scanner_finished, error_caught, stale_lookahead,
                PG_exception_stack, save_exception_stack>>
configVars == <<server_version_num, server_encoding, standard_conforming_strings>>
queryVars  == <<versionString, version_set, param_name, param_value,
                mbstr, mblen_encoding, mblen_result>>
vars == <<filterVars, driverVars, configVars, queryVars>>

-----------------------------------------------------------------------------
(* Bounds *)

\* longest raw token stream (end-of-input not counted)
MaxTokens == 3

\* raw_parser invocations in one behaviour
MaxInvocations == 2

\* longest version string drawn from VersionChars
MaxVersionLen == 5

\* longest raw token stream of a parse that is interleaved with
\* parser_set_param calls (end-of-input not counted)
MaxSessionTokens == 1

-----------------------------------------------------------------------------
(* Token kinds (gram.h).  The end-of-input token is bison's token 0. *)

NULLS_P     == "NULLS_P"
FIRST_P     == "FIRST_P"
LAST_P      == "LAST_P"
\* WITH is a reserved word of TLA+
WITH_KW     == "WITH"
TIME        == "TIME"
IDENT       == "IDENT"
NULLS_FIRST == "NULLS_FIRST"
NULLS_LAST  == "NULLS_LAST"
WITH_TIME   == "WITH_TIME"
YYEOF       == "YYEOF"

\* kinds the scanner can produce before end-of-input
RawKinds == {NULLS_P, FIRST_P, LAST_P, WITH_KW, TIME, IDENT}

NIL == <<>>

\* trees the grammar may leave in yyextra.parsetree
Trees == {NIL, <<"stmt">>}

\* what the scanner can hand out next, after the tokens of stream: any token
\* while the input lasts, end-of-input at its end and ever after
ScannerNext(stream) ==
    IF \/ Len(stream) >= MaxTokens
       \/ (stream # <<>> /\ stream[Len(stream)] = YYEOF)
    THEN {YYEOF}
    ELSE RawKinds \cup {YYEOF}

\* the raw stream as far as one base_yylex call can read it: the tokens
\* handed out so far and the next two
Upcoming(stream) ==
    UNION {{stream \o <<k1, k2>> : k2 \in ScannerNext(Append(stream, k1))} :
           k1 \in ScannerNext(stream)}

\* a lookahead_token field that was never written
Indeterminate == "indeterminate"

-----------------------------------------------------------------------------
(* The scanner: core_yylex hands out the raw tokens in order, each with    *)
(* its value and location, then end-of-input (again on every later call).  *)
(* The value of a token names the invocation and the position it was read  *)
(* at, its location is that position.                                      *)

core_yylex(stream, inv, pos) ==
    [kind |-> IF pos + 1 <= Len(stream) THEN stream[pos + 1] ELSE YYEOF,
     val  |-> <<inv, pos + 1>>,
     loc  |-> pos + 1]

-----------------------------------------------------------------------------
(* base_yylex *)

\* MergedToken whose case LAST_P yields the composite of FIRST_P
MergedToken_WrongLast(cur_token, next_token) ==
    CASE cur_token = NULLS_P /\ next_token = FIRST_P -> NULLS_FIRST
      [] cur_token = NULLS_P /\ next_token = LAST_P  -> NULLS_FIRST
      [] cur_token = WITH_KW /\ next_token = TIME    -> WITH_TIME
      [] OTHER -> cur_token

\* MergedToken without its case LAST_P
MergedToken_NoLast(cur_token, next_token) ==
    CASE cur_token = NULLS_P /\ next_token = FIRST_P -> NULLS_FIRST
      [] cur_token = WITH_KW /\ next_token = TIME    -> WITH_TIME
      [] OTHER -> cur_token

\* the inner switch on next_token: the composite kind, or cur_token itself
\* when the pair is not merged
MergedToken(cur_token, next_token) ==
    CASE cur_token = NULLS_P /\ next_token = FIRST_P -> NULLS_FIRST
      [] cur_token = NULLS_P /\ next_token = LAST_P  -> NULLS_LAST
      [] cur_token = WITH_KW /\ next_token = TIME    -> WITH_TIME
      [] OTHER -> cur_token

\* NeedsLookahead with a case for FIRST_P as well
NeedsLookahead_First(cur_token) == cur_token \in {NULLS_P, WITH_KW, FIRST_P}

\* the outer switch on cur_token: the kinds that make base_yylex look ahead
NeedsLookahead(cur_token) == cur_token \in {NULLS_P, WITH_KW}

\* base_yylex that saves the probe without setting have_lookahead
base_yylex_DropProbe(ext, stream, inv, pos) ==
    LET cur   == IF ext.have_lookahead
                 THEN [kind |-> ext.lookahead_token,
                       val  |-> ext.lookahead_yylval,
                       loc  |-> ext.lookahead_yylloc]
                 ELSE core_yylex(stream, inv, pos)
        pos1  == IF ext.have_lookahead THEN pos ELSE pos + 1
        ext1  == [ext EXCEPT !.have_lookahead = FALSE]
        next  == core_yylex(stream, inv, pos1)
        token == MergedToken(cur.kind, next.kind)
    IN  IF ~NeedsLookahead(cur.kind)
        THEN [token |-> cur.kind, lval |-> cur.val, lloc |-> cur.loc,
              ext |-> ext1, pos |-> pos1, pulls |-> pos1 - pos, probed |-> FALSE]
        ELSE IF token # cur.kind
        THEN [token |-> token, lval |-> next.val, lloc |-> next.loc,
              ext |-> ext1, pos |-> pos1 + 1, pulls |-> pos1 + 1 - pos, probed |-> TRUE]
        ELSE [token |-> cur.kind, lval |-> cur.val, lloc |-> cur.loc,
              ext |-> [have_lookahead   |-> FALSE,
                       lookahead_token  |-> next.kind,
                       lookahead_yylval |-> next.val,
                       lookahead_yylloc |-> next.loc],
              pos |-> pos1 + 1, pulls |-> pos1 + 1 - pos, probed |-> TRUE]

\* base_yylex that takes the buffered token without clearing have_lookahead
base_yylex_KeepFlag(ext, stream, inv, pos) ==
    LET cur   == IF ext.have_lookahead
                 THEN [kind |-> ext.lookahead_token,
                       val  |-> ext.lookahead_yylval,
                       loc  |-> ext.lookahead_yylloc]
                 ELSE core_yylex(stream, inv, pos)
        pos1  == IF ext.have_lookahead THEN pos ELSE pos + 1
        ext1  == ext
        next  == core_yylex(stream, inv, pos1)
        token == MergedToken(cur.kind, next.kind)
    IN  IF ~NeedsLookahead(cur.kind)
        THEN [token |-> cur.kind, lval |-> cur.val, lloc |-> cur.loc,
              ext |-> ext1, pos |-> pos1, pulls |-> pos1 - pos, probed |-> FALSE]
        ELSE IF token # cur.kind
        THEN [token |-> token, lval |-> next.val, lloc |-> next.loc,
              ext |-> ext1, pos |-> pos1 + 1, pulls |-> pos1 + 1 - pos, probed |-> TRUE]
        ELSE [token |-> cur.kind, lval |-> cur.val, lloc |-> cur.loc,
              ext |-> [have_lookahead   |-> TRUE,
                       lookahead_token  |-> next.kind,
                       lookahead_yylval |-> next.val,
                       lookahead_yylloc |-> next.loc],
              pos |-> pos1 + 1, pulls |-> pos1 + 1 - pos, probed |-> TRUE]

\* base_yylex without "back up the output info to cur_token"
base_yylex_NoBackup(ext, stream, inv, pos) ==
    LET cur   == IF ext.have_lookahead
                 THEN [kind |-> ext.lookahead_token,
                       val  |-> ext.lookahead_yylval,
                       loc  |-> ext.lookahead_yylloc]
                 ELSE core_yylex(stream, inv, pos)
        pos1  == IF ext.have_lookahead THEN pos ELSE pos + 1
        ext1  == [ext EXCEPT !.have_lookahead = FALSE]
        next  == core_yylex(stream, inv, pos1)
        token == MergedToken(cur.kind, next.kind)
    IN  IF ~NeedsLookahead(cur.kind)
        THEN [token |-> cur.kind, lval |-> cur.val, lloc |-> cur.loc,
              ext |-> ext1, pos |-> pos1, pulls |-> pos1 - pos, probed |-> FALSE]
        ELSE IF token # cur.kind
        THEN [token |-> token, lval |-> next.val, lloc |-> next.loc,
              ext |-> ext1, pos |-> pos1 + 1, pulls |-> pos1 + 1 - pos, probed |-> TRUE]
        ELSE [token |-> cur.kind, lval |-> next.val, lloc |-> next.loc,
              ext |-> [have_lookahead   |-> TRUE,
                       lookahead_token  |-> next.kind,
                       lookahead_yylval |-> next.val,
                       lookahead_yylloc |-> next.loc],
              pos |-> pos1 + 1, pulls |-> pos1 + 1 - pos, probed |-> TRUE]

\* One call of base_yylex on filter state ext (have_lookahead and the three
\* lookahead_ fields) with the scanner at pos.  Yields the returned token
\* kind, what is left in *lvalp and *llocp, the new filter state, the new
\* scanner position and the number of core_yylex calls made.
base_yylex(ext, stream, inv, pos) ==
    LET cur   == IF ext.have_lookahead
                 THEN [kind |-> ext.lookahead_token,
                       val  |-> ext.lookahead_yylval,
                       loc  |-> ext.lookahead_yylloc]
                 ELSE core_yylex(stream, inv, pos)
        pos1  == IF ext.have_lookahead THEN pos ELSE pos + 1
        ext1  == [ext EXCEPT !.have_lookahead = FALSE]
        next  == core_yylex(stream, inv, pos1)
        token == MergedToken(cur.kind, next.kind)
    IN  IF ~NeedsLookahead(cur.kind)
        THEN [token |-> cur.kind, lval |-> cur.val, lloc |-> cur.loc,
              ext |-> ext1, pos |-> pos1, pulls |-> pos1 - pos, probed |-> FALSE]
        ELSE IF token # cur.kind
        THEN \* merged: *lvalp and *llocp keep what the second core_yylex wrote
             [token |-> token, lval |-> next.val, lloc |-> next.loc,
              ext |-> ext1, pos |-> pos1 + 1, pulls |-> pos1 + 1 - pos, probed |-> TRUE]
        ELSE \* save the lookahead token, back up the output to cur_token
             [token |-> cur.kind, lval |-> cur.val, lloc |-> cur.loc,
              ext |-> [have_lookahead   |-> TRUE,
                       lookahead_token  |-> next.kind,
                       lookahead_yylval |-> next.val,
                       lookahead_yylloc |-> next.loc],
              pos |-> pos1 + 1, pulls |-> pos1 + 1 - pos, probed |-> TRUE]

yyextra == [have_lookahead   |-> have_lookahead,
            lookahead_token  |-> lookahead_token,
            lookahead_yylval |-> lookahead_yylval,
            lookahead_yylloc |-> lookahead_yylloc]

-----------------------------------------------------------------------------
(* raw_parser *)

\* raw_parser without yyextra.have_lookahead = false
InitHaveLookahead_Missing(previous) == previous

\* yyextra.have_lookahead = false, whatever the stack slot held before
InitHaveLookahead(previous) == FALSE

\* parser_init(&yyextra) (gram.y): the tree the grammar starts from
parser_init(previous) == NIL

\* raw_parser without "if (yyresult) return NIL"
ReturnAfterParse_NoCheck(res, tree) == tree

\* the two returns that follow base_yyparse inside the PG_TRY block
ReturnAfterParse(res, tree) == IF res # 0 THEN NIL ELSE tree

\* the return of the PG_CATCH block
ReturnAfterError(tree) == NIL

\* values base_yyparse returns: 0 accepted, 1 for the non-zero values (line
\* 75 tests for zero and nothing else)
YyResults == {0, 1}

NoResult == 0 - 1
NoReturn == <<"no return">>

\* raw_parser without its scanner_finish calls
scanner_finish_Skipped(calls) == calls

\* a scanner released on the way out and once more before the return
scanner_finish_Twice(calls) == calls + 2

\* scanner_finish(yyscanner), counted
scanner_finish(calls) == calls + 1

Composite == {NULLS_FIRST, NULLS_LAST, WITH_TIME}

\* the handler the caller of raw_parser runs under
HostHandler == 0

\* a local variable of raw_parser while raw_parser is not running
OutOfScope == 0 - 1

\* PG_TRY (elog.h) declares a sigjmp_buf in the frame of invocation inv and
\* points PG_exception_stack at it
PG_TRY(inv) == inv

\* PG_CATCH (elog.h), entered by the longjmp of an error, and PG_END_TRY put
\* back the value PG_TRY saved
PG_CATCH(saved) == saved
PG_END_TRY(saved) == saved

\* a return statement inside the PG_TRY block leaves the function without
\* reaching PG_END_TRY: PG_exception_stack stays as it is
ReturnInsideTry(stack, saved) == stack

\* the grammar has been handed end-of-input
SawEOF == out # <<>> /\ out[Len(out)].token = YYEOF

\* raw_parser(str) up to the call of base_yyparse; the tokens of str are
\* chosen as the scanner hands them out
raw_parser ==
    /\ pc \in {"idle", "returned"}
    /\ invocation < MaxInvocations
    /\ invocation' = invocation + 1
    /\ parsetree' = NIL
    /\ raw' = <<>>
    /\ scanpos' = 0
    /\ scanner_finished' = 0
    /\ have_lookahead' = InitHaveLookahead(have_lookahead)
    /\ stale_lookahead' = have_lookahead
    /\ yyextra_parsetree' = parser_init(yyextra_parsetree)
    /\ in_parser_context' = TRUE
    /\ yyresult' = NoResult
    /\ result' = NoReturn
    /\ error_caught' = FALSE
    /\ out' = <<>>
    /\ save_exception_stack' = PG_exception_stack
    /\ PG_exception_stack' = PG_TRY(invocation + 1)
    /\ pc' = "parsing"
    /\ UNCHANGED <<lookahead_token, lookahead_yylval, lookahead_yylloc>>
    /\ UNCHANGED <<configVars, queryVars>>

\* base_yyparse asks base_yylex for its next token
Lex ==
    /\ pc = "parsing"
    /\ ~SawEOF
    /\ \E str \in Upcoming(raw) :
       LET r == base_yylex(yyextra, str, invocation, scanpos)
       IN  /\ raw' = SubSeq(str, 1, r.pos)
           /\ out' = Append(out, [token |-> r.token, lval |-> r.lval, lloc |-> r.lloc,
                                  first |-> IF have_lookahead THEN scanpos ELSE scanpos + 1,
                                  last |-> r.pos,
                                  pulls |-> r.pulls,
                                  buffered |-> have_lookahead,
                                  kept |-> r.ext.have_lookahead])
           /\ scanpos' = r.pos
           /\ have_lookahead' = r.ext.have_lookahead
           /\ lookahead_token' = r.ext.lookahead_token
           /\ lookahead_yylval' = r.ext.lookahead_yylval
           /\ lookahead_yylloc' = r.ext.lookahead_yylloc
    /\ UNCHANGED <<invocation, pc, yyextra_parsetree, parsetree, yyresult, result,
                   in_parser_context, scanner_finished, error_caught, stale_lookahead,
                   PG_exception_stack, save_exception_stack>>
    /\ UNCHANGED <<configVars, queryVars>>

\* a grammar action stores its tree: pg_yyget_extra(yyscanner)->parsetree = ...
GrammarStore(tree) ==
    /\ pc = "parsing"
    /\ tree # yyextra_parsetree
    /\ yyextra_parsetree' = tree
    /\ UNCHANGED <<raw, invocation, pc, parsetree, yyresult, result, in_parser_context,
                   scanner_finished, error_caught, stale_lookahead,
                   PG_exception_stack, save_exception_stack>>
    /\ UNCHANGED <<filterVars, configVars, queryVars>>

\* base_yyparse returns res; raw_parser runs the rest of the PG_TRY block
ParseReturns(res) ==
    /\ pc = "parsing"
    /\ res = 0 => SawEOF
    /\ yyresult' = res
    /\ scanner_finished' = scanner_finish(scanner_finished)
    /\ in_parser_context' = FALSE
    /\ result' = ReturnAfterParse(res, yyextra_parsetree)
    /\ PG_exception_stack' = ReturnInsideTry(PG_exception_stack, save_exception_stack)
    /\ pc' = "returned"
    /\ save_exception_stack' = OutOfScope
    /\ UNCHANGED <<raw, invocation, yyextra_parsetree, parsetree, error_caught,
                   stale_lookahead>>
    /\ UNCHANGED <<filterVars, configVars, queryVars>>

\* an error is raised inside base_yyparse, by a grammar action or by the
\* scanner during the first core_yylex of a base_yylex call (nothing of the
\* filter state has changed then); raw_parser runs the PG_CATCH block
ParseRaises ==
    /\ pc = "parsing"
    /\ error_caught' = TRUE
    /\ scanner_finished' = scanner_finish(scanner_finished)
    /\ in_parser_context' = FALSE
    /\ result' = ReturnAfterError(yyextra_parsetree)
    /\ PG_exception_stack' = PG_CATCH(save_exception_stack)
    /\ pc' = "returned"
    /\ save_exception_stack' = OutOfScope
    /\ UNCHANGED <<raw, invocation, yyextra_parsetree, parsetree, yyresult,
                   stale_lookahead>>
    /\ UNCHANGED <<filterVars, configVars, queryVars>>

\* the scanner raises an error during the second core_yylex of a base_yylex
\* call: the current token has been taken (from the buffer or the scanner),
\* nothing has been returned; raw_parser runs the PG_CATCH block
ProbeRaises ==
    /\ pc = "parsing"
    /\ ~SawEOF
    /\ \E str \in Upcoming(raw) :
       LET r == base_yylex(yyextra, str, invocation, scanpos)
       IN  /\ r.probed
           /\ scanpos' = r.pos - 1
           /\ raw' = SubSeq(str, 1, r.pos - 1)
    /\ have_lookahead' = FALSE
    /\ error_caught' = TRUE
    /\ scanner_finished' = scanner_finish(scanner_finished)
    /\ in_parser_context' = FALSE
    /\ result' = ReturnAfterError(yyextra_parsetree)
    /\ PG_exception_stack' = PG_CATCH(save_exception_stack)
    /\ pc' = "returned"
    /\ save_exception_stack' = OutOfScope
    /\ UNCHANGED <<invocation, yyextra_parsetree, parsetree, yyresult, stale_lookahead>>
    /\ UNCHANGED <<lookahead_token, lookahead_yylval, lookahead_yylloc, out>>
    /\ UNCHANGED <<configVars, queryVars>>

-----------------------------------------------------------------------------
(* Session parameters.  A C string is the sequence of its characters.      *)

PG_SQL_ASCII == "PG_SQL_ASCII"
PG_UTF8      == "PG_UTF8"

Digits == {"0", "1", "2", "3", "4", "5", "6", "7", "8", "9"}

DigitValue(c) ==
    CASE c = "0" -> 0 [] c = "1" -> 1 [] c = "2" -> 2 [] c = "3" -> 3 [] c = "4" -> 4
      [] c = "5" -> 5 [] c = "6" -> 6 [] c = "7" -> 7 [] c = "8" -> 8 [] c = "9" -> 9

\* int arithmetic: 32 bits, two's complement; a result out of range (undefined
\* in C) is the low 32 bits of the true result, as the add and multiply
\* instructions leave it.  An int is split in two 16 bit halves so that no
\* intermediate value leaves the 32 bit range.
Half == 2^16

Halves(x) == [hi |-> (x \div Half) % Half, lo |-> x % Half]

FromHalves(h) ==
    IF h.hi >= Half \div 2 THEN (h.hi - Half) * Half + h.lo ELSE h.hi * Half + h.lo

\* x + y in int
IntAdd(x, y) ==
    LET a == Halves(x)
        b == Halves(y)
        lo == a.lo + b.lo
    IN  FromHalves([hi |-> (a.hi + b.hi + lo \div Half) % Half, lo |-> lo % Half])

\* x * 100 in int
IntTimes100(x) ==
    LET a == Halves(x)
        lo == a.lo * 100
    IN  FromHalves([hi |-> (a.hi * 100 + lo \div Half) % Half, lo |-> lo % Half])

\* first index at or after i that holds no white space
RECURSIVE SkipSpace(_, _)
SkipSpace(s, i) ==
    IF i <= Len(s) /\ s[i] = " " THEN SkipSpace(s, i + 1) ELSE i

\* first index at or after i that holds no digit
RECURSIVE DigitsEnd(_, _)
DigitsEnd(s, i) ==
    IF i <= Len(s) /\ s[i] \in Digits THEN DigitsEnd(s, i + 1) ELSE i

\* the decimal number written in s[i .. j-1]
RECURSIVE Decimal(_, _, _)
Decimal(s, i, j) ==
    IF j <= i THEN 0 ELSE 10 * Decimal(s, i, j - 1) + DigitValue(s[j - 1])

\* sscanf's %d at index i: white space, an optional sign, digits.
\* ok: a number was read; val: the int stored (the number read, which fits an
\* int for every string of VersionStrings); next: index after it;
\* eof: the input ended before anything but white space was seen.
ScanInt(s, i) ==
    LET j     == SkipSpace(s, i)
        signd == j <= Len(s) /\ s[j] \in {"+", "-"}
        k     == IF signd THEN j + 1 ELSE j
        e     == DigitsEnd(s, k)
        mag   == Decimal(s, k, e)
    IN  [ok   |-> e > k,
         val  |-> IF signd /\ s[j] = "-" THEN 0 - mag ELSE mag,
         next |-> e,
         eof  |-> j > Len(s)]

\* sscanf(versionString, "%d.%d.%d", &vmaj, &vmin, &vrev): the number of
\* conversions made (EOF, -1, when the input ends before the first one) and
\* the values stored; a variable no conversion reached is left unwritten
sscanf_version(s) ==
    LET a   == ScanInt(s, 1)
        dot1 == a.ok /\ a.next <= Len(s) /\ s[a.next] = "."
        b   == ScanInt(s, a.next + 1)
        dot2 == dot1 /\ b.ok /\ b.next <= Len(s) /\ s[b.next] = "."
        c   == ScanInt(s, b.next + 1)
    IN  IF ~a.ok THEN [cnt |-> IF a.eof THEN -1 ELSE 0]
        ELSE IF ~(dot1 /\ b.ok) THEN [cnt |-> 1, vmaj |-> a.val]
        ELSE IF ~(dot2 /\ c.ok) THEN [cnt |-> 2, vmaj |-> a.val, vmin |-> b.val]
        ELSE [cnt |-> 3, vmaj |-> a.val, vmin |-> b.val, vrev |-> c.val]

\* parse_version without the revision
parse_version_NoRevision(versionStr) ==
    LET sc == sscanf_version(versionStr)
    IN  IF sc.cnt < 2 THEN -1
        ELSE IntTimes100(IntAdd(IntTimes100(sc.vmaj), sc.vmin))

parse_version(versionStr) ==
    LET sc   == sscanf_version(versionStr)
        vrev == IF sc.cnt = 2 THEN 0 ELSE sc.vrev
    IN  IF sc.cnt < 2 THEN -1
        ELSE IntAdd(IntTimes100(IntAdd(IntTimes100(sc.vmaj), sc.vmin)), vrev)

Str_UTF8 == <<"U", "T", "F", "8">>
Str_on   == <<"o", "n">>

Str_utf8 == <<"u", "t", "f", "8">>

\* parser_set_param that compares the encoding name without regard to case
parser_set_param_CaseFold(cfg, name, value) ==
    IF name = "server_version"
    THEN [cfg EXCEPT !.server_version_num = parse_version(value)]
    ELSE IF name = "server_encoding"
    THEN [cfg EXCEPT !.server_encoding =
                        IF value \in {Str_UTF8, Str_utf8} THEN PG_UTF8
                        ELSE PG_SQL_ASCII]
    ELSE IF name = "standard_conforming_strings"
    THEN [cfg EXCEPT !.standard_conforming_strings = (value = Str_on)]
    ELSE cfg

\* parser_set_param whose last branch takes every other name
parser_set_param_AnyOther(cfg, name, value) ==
    IF name = "server_version"
    THEN [cfg EXCEPT !.server_version_num = parse_version(value)]
    ELSE IF name = "server_encoding"
    THEN [cfg EXCEPT !.server_encoding =
                        IF value = Str_UTF8 THEN PG_UTF8 ELSE PG_SQL_ASCII]
    ELSE [cfg EXCEPT !.standard_conforming_strings = (value = Str_on)]

\* parser_set_param on the session parameters cfg
parser_set_param(cfg, name, value) ==
    IF name = "server_version"
    THEN [cfg EXCEPT !.server_version_num = parse_version(value)]
    ELSE IF name = "server_encoding"
    THEN [cfg EXCEPT !.server_encoding =
                        IF value = Str_UTF8 THEN PG_UTF8 ELSE PG_SQL_ASCII]
    ELSE IF name = "standard_conforming_strings"
    THEN [cfg EXCEPT !.standard_conforming_strings = (value = Str_on)]
    ELSE cfg

GetDatabaseEncoding == server_encoding

\* pg_utf_mblen (wchar.c): the length the leading byte of a UTF-8 character
\* announces, 1 for a byte that cannot lead
pg_utf_mblen(byte) ==
    IF byte < 128 THEN 1
    ELSE IF byte >= 192 /\ byte < 224 THEN 2
    ELSE IF byte >= 224 /\ byte < 240 THEN 3
    ELSE IF byte >= 240 /\ byte < 248 THEN 4
    ELSE 1

\* pg_mblen that takes every character for a single byte
pg_mblen_Single(byte) == 1

pg_mblen(byte) == pg_utf_mblen(byte)

session == [server_version_num |-> server_version_num,
            server_encoding |-> server_encoding,
            standard_conforming_strings |-> standard_conforming_strings]

\* a host that could run while raw_parser is still on the stack
HostHasControl_Always == TRUE

\* raw_parser is an ordinary synchronous call: the host runs before it is
\* called and after it has returned, not in between
HostHasControl == pc \in {"idle", "returned"}

\* the host calls parser_set_param(name, value)
ParserSetParam(name, value) ==
    /\ HostHasControl
    /\ LET cfg == parser_set_param(session, name, value)
       IN  /\ server_version_num' = cfg.server_version_num
           /\ server_encoding' = cfg.server_encoding
           /\ standard_conforming_strings' = cfg.standard_conforming_strings
    /\ versionString' = IF name = "server_version" THEN value ELSE versionString
    /\ version_set' = (version_set \/ name = "server_version")
    /\ param_name' = name
    /\ param_value' = value
    /\ UNCHANGED <<mbstr, mblen_encoding, mblen_result, filterVars, driverVars>>

\* the host calls pg_mblen on a string that starts with byte
PgMblen(byte) ==
    /\ mbstr' = byte
    /\ mblen_encoding' = GetDatabaseEncoding
    /\ mblen_result' = pg_mblen(byte)
    /\ UNCHANGED <<versionString, version_set, param_name, param_value,
                   configVars, filterVars, driverVars>>

Bytes == 0 .. 255

\* characters version strings are drawn from
VersionChars == {"9", "1", "3", ".", "x", " ", "-"}

\* the sequences over S of length at most n
SeqsUpTo(S, n) == UNION {[1 .. k -> S] : k \in 0 .. n}

Str_9_1_3 == <<"9", ".", "1", ".", "3">>
Str_9_1   == <<"9", ".", "1">>
Str_bogus == <<"b", "o", "g", "u", "s">>

\* a version whose parts fit an int while their encoding does not
Str_21474837_0 == <<"2", "1", "4", "7", "4", "8", "3", "7", ".", "0">>

VersionStrings ==
    SeqsUpTo(VersionChars, MaxVersionLen) \cup {Str_bogus, Str_21474837_0}

ParamNames == {"server_version", "server_encoding", "standard_conforming_strings",
               "client_encoding"}

ParamValues == {Str_UTF8, Str_utf8, <<"L", "A", "T", "I", "N", "1">>,
                Str_on, <<"o", "f", "f">>, <<"O", "N">>, <<>>,
                Str_9_1_3, Str_9_1, Str_bogus}

-----------------------------------------------------------------------------
(* The parse driver and the filter *)

Init ==
    /\ raw = <<>>
    /\ invocation = 0
    /\ pc = "idle"
    /\ scanpos = 0
    /\ have_lookahead = FALSE
    /\ lookahead_token = Indeterminate
    /\ lookahead_yylval = <<0, 0>>
    /\ lookahead_yylloc = 0
    /\ out = <<>>
    /\ yyextra_parsetree = NIL
    /\ parsetree = NIL
    /\ yyresult = NoResult
    /\ result = NoReturn
    /\ in_parser_context = FALSE
    /\ scanner_finished = 0
    /\ error_caught = FALSE
    /\ stale_lookahead = FALSE
    /\ PG_exception_stack = HostHandler
    /\ save_exception_stack = OutOfScope
    /\ server_version_num = 0
    /\ server_encoding = PG_SQL_ASCII
    /\ standard_conforming_strings \in BOOLEAN
    /\ versionString = <<>>
    /\ version_set = FALSE
    /\ param_name = ""
    /\ param_value = <<>>
    /\ mbstr = 0
    /\ mblen_encoding = PG_SQL_ASCII
    /\ mblen_result = 0

Next ==
    \/ raw_parser
    \/ Lex
    \/ \E tree \in Trees : GrammarStore(tree)
    \/ \E res \in YyResults : ParseReturns(res)
    \/ ParseRaises
    \/ ProbeRaises

\* raw_parser and base_yylex read none of the session parameters: the
\* driver is explored from one of the two initial values of the flag
InitDriver == Init /\ ~standard_conforming_strings

Spec == InitDriver /\ [][Next]_vars

\* parse_version on every version string: one parser_set_param call
NextVersion ==
    /\ ~version_set
    /\ \E value \in VersionStrings : ParserSetParam("server_version", value)

SpecVersion == Init /\ [][NextVersion]_vars

\* the server encoding and the character length query
NextConfig ==
    \/ \E value \in ParamValues : ParserSetParam("server_encoding", value)
    \/ \E byte \in Bytes : PgMblen(byte)

SpecConfig == Init /\ [][NextConfig]_vars

\* parser_set_param calls with every name and value, in any order
NextParam ==
    \E name \in ParamNames, value \in ParamValues : ParserSetParam(name, value)

SpecParam == Init /\ [][NextParam]_vars

\* the parser_set_param calls a host makes around its parses
SessionCalls == {<<"server_version", Str_9_1>>,
                 <<"server_encoding", Str_UTF8>>,
                 <<"standard_conforming_strings", Str_on>>}

\* the token kinds of those queries: one lead token, one plain token
SessionKinds == {NULLS_P, IDENT, YYEOF}

SessionInput ==
    /\ Len(raw) <= MaxSessionTokens + 1
    /\ \A i \in 1 .. Len(raw) : raw[i] \in SessionKinds

\* a host that parses short queries and sets parameters, in any order
NextSession ==
    \/ raw_parser
    \/ Lex /\ SessionInput'
    \/ \E tree \in Trees : GrammarStore(tree)
    \/ \E res \in YyResults : ParseReturns(res)
    \/ ParseRaises
    \/ ProbeRaises /\ SessionInput'
    \/ \E call \in SessionCalls : ParserSetParam(call[1], call[2])

SpecSession == Init /\ [][NextSession]_vars

-----------------------------------------------------------------------------
(* Properties of the filter and the driver, checked under Spec *)

LeadTokens == {NULLS_P, WITH_KW}

\* the kinds that merge with a lead token
Continuations(lead) ==
    IF lead = NULLS_P THEN {FIRST_P, LAST_P}
    ELSE IF lead = WITH_KW THEN {TIME}
    ELSE {}

CompositeOf(lead, continuation) ==
    IF lead = WITH_KW THEN WITH_TIME
    ELSE IF continuation = FIRST_P THEN NULLS_FIRST
    ELSE NULLS_LAST

\* the raw token at position i as the scanner handed it out
RawToken(i) == [kind |-> raw[i], val |-> <<invocation, i>>, loc |-> i]

\* call j of base_yylex returned the raw token at position i as it was
Unchanged(j, i) ==
    /\ out[j].token = RawToken(i).kind
    /\ out[j].lval = RawToken(i).val
    /\ out[j].lloc = RawToken(i).loc

NoLeadInRaw == \A i \in 1 .. Len(raw) : raw[i] \notin LeadTokens

\* C1: while the raw stream holds no lead token (neither NULLS_P nor WITH),
\* the tokens base_yylex has returned are the raw tokens in order, with their
\* kind, value and location, every call made exactly one core_yylex call,
\* and the lookahead buffer is empty.
C1_NoLeadIsIdentity ==
    NoLeadInRaw =>
        /\ Len(out) = Len(raw)
        /\ scanpos = Len(out)
        /\ \A j \in 1 .. Len(out) : Unchanged(j, j) /\ out[j].pulls = 1 /\ ~out[j].kept
        /\ pc = "parsing" => ~have_lookahead

C1_Witness ==
    /\ NoLeadInRaw
    /\ Len(out) >= 3
    /\ SawEOF
    /\ \E j \in 1 .. Len(out) : out[j].token \in {FIRST_P, LAST_P, TIME}

\* position i holds a lead token and position i + 1 one of its continuations
MergeablePair(i) ==
    /\ i + 1 <= Len(raw)
    /\ raw[i] \in LeadTokens
    /\ raw[i + 1] \in Continuations(raw[i])

\* C2: once a lead token and, right after it, one of its continuations have
\* been read from the scanner, exactly one base_yylex call stands for the
\* pair: it returned the composite kind, used up exactly those two raw
\* tokens (one core_yylex call when the lead came from the buffer, two
\* otherwise) and left the buffer empty; no call returned either original.
C2_PairBecomesComposite ==
    \A i \in 1 .. Len(raw) :
        MergeablePair(i) =>
            /\ \E j \in 1 .. Len(out) :
                  /\ out[j].token = CompositeOf(raw[i], raw[i + 1])
                  /\ out[j].first = i
                  /\ out[j].last = i + 1
                  /\ out[j].pulls = (IF out[j].buffered THEN 1 ELSE 2)
                  /\ ~out[j].kept
            /\ \A j \in 1 .. Len(out) :
                  out[j].first \in {i, i + 1} => out[j].token \in Composite
            /\ Cardinality({j \in 1 .. Len(out) : out[j].first \in {i, i + 1}}) = 1

C2_Witness ==
    \E j \in 1 .. Len(out) :
        /\ out[j].token = NULLS_LAST
        /\ out[j].buffered
        /\ MergeablePair(out[j].first)

\* call j returned a lead token whose successor in the raw stream is not one
\* of its continuations, and call j + 1 has been made
UnmergedLead(j) ==
    /\ j + 1 <= Len(out)
    /\ out[j].first + 1 <= Len(raw)
    /\ raw[out[j].first] \in LeadTokens
    /\ raw[out[j].first + 1] \notin Continuations(raw[out[j].first])

\* C3 as stated: after a lead token followed by any token that is not one of
\* its continuations, the call returns the lead unchanged and the next call
\* returns the probed token unchanged without a core_yylex call.
C3_ProbeReturnedUnchanged ==
    \A j \in 1 .. Len(out) :
        UnmergedLead(j) =>
            /\ Unchanged(j, out[j].first)
            /\ Unchanged(j + 1, out[j].first + 1)
            /\ out[j + 1].pulls = 0

\* C3 amended: the lead is returned unchanged; the next call starts from the
\* buffered probe; when the probe is no lead token itself it is returned
\* unchanged without a core_yylex call; when it is a lead token the call
\* makes exactly one core_yylex call and returns the probe unchanged or the
\* composite of the probe and its continuation.
C3_ProbeReturnedUnlessLead ==
    \A j \in 1 .. Len(out) :
        UnmergedLead(j) =>
            LET i == out[j].first
            IN  /\ Unchanged(j, i)
                /\ out[j].kept
                /\ out[j + 1].buffered
                /\ out[j + 1].first = i + 1
                /\ raw[i + 1] \notin LeadTokens =>
                      /\ Unchanged(j + 1, i + 1)
                      /\ out[j + 1].pulls = 0
                /\ raw[i + 1] \in LeadTokens =>
                      /\ out[j + 1].pulls = 1
                      /\ IF MergeablePair(i + 1)
                         THEN out[j + 1].token = CompositeOf(raw[i + 1], raw[i + 2])
                         ELSE Unchanged(j + 1, i + 1)

C3_Witness ==
    \E j \in 1 .. Len(out) :
        /\ UnmergedLead(j)
        /\ raw[out[j].first + 1] \in {IDENT, YYEOF}
        /\ out[j + 1].pulls = 0
        /\ Len(out) >= 3

\* C4 as stated: a composite token is reported at the lead token's location,
\* and neither the value nor the location the grammar receives is the
\* probe's.
C4_CompositeAtLeadLocation ==
    \A j \in 1 .. Len(out) :
        out[j].token \in Composite =>
            /\ out[j].lloc = RawToken(out[j].first).loc
            /\ out[j].lval # RawToken(out[j].first + 1).val
            /\ out[j].lloc # RawToken(out[j].first + 1).loc

\* C5: raw_parser returns NIL whenever base_yyparse returned non-zero or an
\* error was raised, whatever tree the grammar had stored; it returns a
\* list, never the error; a non-empty list only after base_yyparse
\* returned 0.
C5_AllOrNothing ==
    pc = "returned" =>
        /\ result \in Trees
        /\ (yyresult # 0 \/ error_caught) => result = NIL
        /\ result # NIL => yyresult = 0 /\ ~error_caught

C5_Witness ==
    /\ pc = "returned"
    /\ yyresult \in {1, 2}
    /\ yyextra_parsetree # NIL
    /\ result = NIL
    /\ Len(out) >= 2

\* C6: a raw_parser invocation starts with an empty lookahead buffer, and
\* every token it returns was read from the scanner in this invocation; a
\* token the previous invocation left in the buffer is never returned.
C6_NoLookaheadLeak ==
    /\ (pc = "parsing" /\ out = <<>>) => ~have_lookahead
    /\ \A j \in 1 .. Len(out) :
          /\ out[j].lval[1] = invocation
          /\ out[j].first >= 1
          /\ out[j].last <= Len(raw)
          /\ j = 1 => ~out[j].buffered /\ out[j].first = 1

C6_Witness ==
    /\ invocation = 2
    /\ stale_lookahead
    /\ lookahead_yylval[1] = 1
    /\ Len(out) >= 2
    /\ pc = "returned"

\* the scanner reported end-of-input on the first call and the grammar
\* accepted with no statement
EmptyInputAccepted ==
    /\ pc = "returned"
    /\ raw = <<YYEOF>>
    /\ Len(out) = 1
    /\ yyresult = 0
    /\ yyextra_parsetree = NIL

\* C7: on empty input that the grammar accepts with no statement, raw_parser
\* returns the empty list through the success path: no error was caught,
\* the scanner was finished once and in_parser_context is false again.
C7_EmptyInput ==
    EmptyInputAccepted =>
        /\ result = NIL
        /\ ~error_caught
        /\ scanner_finished = 1
        /\ ~in_parser_context
        /\ out[1].token = YYEOF

C7_Witness == EmptyInputAccepted /\ invocation = 1

-----------------------------------------------------------------------------
(* Properties of parse_version, checked under SpecVersion *)

\* C8 as stated: after parser_set_param("server_version", "9.1.3")
\* server_version_num is 91003.
C8_Stores91003 ==
    (version_set /\ versionString = Str_9_1_3) => server_version_num = 91003

\* C8 amended: after parser_set_param("server_version", "9.1.3")
\* server_version_num is (100*9+1)*100+3, which is 90103.
C8_Stores90103 ==
    (version_set /\ versionString = Str_9_1_3) =>
        /\ server_version_num = (100 * 9 + 1) * 100 + 3
        /\ server_version_num = 90103

C8_Witness == version_set /\ versionString = Str_9_1_3

\* num = (100 * vmaj + vmin) * 100 + vrev over the integers, worked out from
\* num downwards so that no intermediate value is larger than num
Encodes(num, vmaj, vmin, vrev) ==
    LET q == num - vrev
        h == (q \div 100) - vmin
    IN  /\ q % 100 = 0
        /\ h % 100 = 0
        /\ h \div 100 = vmaj

\* C9 as stated: for every version string, parser_set_param("server_version",
\* s) stores (100*major + minor)*100 + revision when major and minor are
\* read, with revision 0 when it is missing or unreadable, and -1 when fewer
\* than two parts are read; "9.1" stores 90100 and "bogus" stores -1.
C9_VersionEncoding ==
    version_set =>
        LET sc == sscanf_version(versionString)
        IN  /\ sc.cnt >= 2 =>
                  Encodes(server_version_num, sc.vmaj, sc.vmin,
                          IF sc.cnt = 3 THEN sc.vrev ELSE 0)
            /\ sc.cnt < 2 => server_version_num = -1
            /\ versionString = Str_9_1 => server_version_num = 90100
            /\ versionString = Str_bogus => server_version_num = -1

-----------------------------------------------------------------------------
(* Properties of pg_mblen, checked under SpecConfig *)

\* C10 as stated: while the server encoding is the single-byte default,
\* pg_mblen returns 1 for every first byte, 0xC2 among them; once the
\* encoding is UTF8 it returns 2 for 0xC2.
C10_MblenFollowsEncoding ==
    mblen_result # 0 =>
        /\ mblen_encoding = PG_SQL_ASCII => mblen_result = 1
        /\ (mblen_encoding = PG_UTF8 /\ mbstr = 194) => mblen_result = 2

\* C11: with the encoding set to UTF8, pg_mblen answers from the first byte
\* alone: 1 for 0x00-0x7F, 2 for 0xC0-0xDF, 3 for 0xE0-0xEF, 4 for 0xF0-0xF7
\* and 1 for the bytes that cannot lead a character (0x80-0xBF, 0xF8-0xFF);
\* the answer is never 0 and the call never fails.
C11_Utf8LeadByteLength ==
    mblen_encoding = PG_UTF8 =>
        /\ mbstr \in 0 .. 127 => mblen_result = 1
        /\ mbstr \in 192 .. 223 => mblen_result = 2
        /\ mbstr \in 224 .. 239 => mblen_result = 3
        /\ mbstr \in 240 .. 247 => mblen_result = 4
        /\ mbstr \in (128 .. 191) \cup (248 .. 255) => mblen_result = 1
        /\ mblen_result \in 1 .. 4

\* pg_mblen was asked about a four-byte lead while the encoding was UTF8
C11_Witness ==
    /\ mblen_encoding = PG_UTF8
    /\ mbstr = 244
    /\ mblen_result = 4

-----------------------------------------------------------------------------
(* Properties of parser_set_param, checked under SpecParam *)

\* what a parser_set_param(name, ...) step may change
Frame(name) ==
    /\ name # "server_version" => server_version_num' = server_version_num
    /\ name # "server_encoding" => server_encoding' = server_encoding
    /\ name # "standard_conforming_strings" =>
           standard_conforming_strings' = standard_conforming_strings

\* C12: parser_set_param with a name that is none of the three recognised
\* ones leaves all three stored values as they were; with a recognised name
\* it changes at most the field that name stands for, whatever the value
\* string and the configuration before the call.
C12_SetParamFrame ==
    [][\A name \in ParamNames, value \in ParamValues :
          ParserSetParam(name, value) => Frame(name)]_vars

\* a call with an unrecognised name was made on a configuration in which
\* all three values had been set away from their defaults, and they stand
C12_Witness ==
    /\ param_name = "client_encoding"
    /\ server_version_num = 90103
    /\ server_encoding = PG_UTF8
    /\ standard_conforming_strings

\* C13: the encoding and the escaping flag depend on the last value written
\* to them and on nothing else: after parser_set_param("server_encoding", v)
\* GetDatabaseEncoding() is UTF8 exactly when v is "UTF8" (so "utf8" resets
\* it to the single-byte default), after
\* parser_set_param("standard_conforming_strings", v) the flag is true exactly
\* when v is "on", and making the same call again changes nothing.
C13_LastValueDecides ==
    /\ param_name = "server_encoding" =>
           (GetDatabaseEncoding = PG_UTF8 <=> param_value = Str_UTF8)
    /\ param_name = "standard_conforming_strings" =>
           (standard_conforming_strings <=> param_value = Str_on)
    /\ param_name # "" =>
           parser_set_param(session, param_name, param_value) = session

\* the encoding was last written with "utf8" and is the single-byte default
C13_Witness ==
    /\ param_name = "server_encoding"
    /\ param_value = Str_utf8
    /\ GetDatabaseEncoding = PG_SQL_ASCII
    /\ version_set

-----------------------------------------------------------------------------
(* Properties of a session, checked under SpecSession *)

-----------------------------------------------------------------------------
(* Properties of the parse driver's exits, checked under Spec *)

\* C15 as stated: the variable whose value raw_parser returns on the success
\* path is the one raw_parser itself set to the empty list before parsing
\* started (parsetree, line 58), so that a grammar which reports success
\* without storing a result makes raw_parser return the empty list and an
\* uninitialised value is never returned.
C15_ReturnsInitialisedVariable ==
    (pc = "returned" /\ ~error_caught /\ yyresult = 0) =>
        /\ result = parsetree
        /\ (yyextra_parsetree = NIL => result = NIL)

\* C16: on every way out of raw_parser (the grammar succeeds, the grammar
\* fails with a non-zero result, an error is raised inside base_yyparse)
\* scanner_finish has been called exactly once on the scanner of this
\* invocation, after the last token was pulled and before the return, and
\* in_parser_context is false at the return; while base_yyparse runs,
\* in_parser_context is true and the scanner has not been finished.
C16_FinishOnceOnEveryExit ==
    /\ pc = "parsing" => (in_parser_context /\ scanner_finished = 0)
    /\ pc = "returned" => (~in_parser_context /\ scanner_finished = 1)

\* raw_parser has left through PG_CATCH after tokens were pulled
C16_Witness ==
    /\ pc = "returned"
    /\ error_caught
    /\ scanpos >= 2
    /\ scanner_finished = 1
    /\ ~in_parser_context

-----------------------------------------------------------------------------
(* Properties of the filter's bookkeeping, checked under Spec *)

\* the (lead, continuation) pair a composite token stands for
PairOf(token) ==
    IF token = WITH_TIME THEN <<WITH_KW, TIME>>
    ELSE IF token = NULLS_FIRST THEN <<NULLS_P, FIRST_P>>
    ELSE <<NULLS_P, LAST_P>>

\* the kinds returned by the calls, each composite replaced by its pair
RECURSIVE Expansion(_)
Expansion(calls) ==
    IF calls = <<>> THEN <<>>
    ELSE LET token == Head(calls).token
         IN  (IF token \in Composite THEN PairOf(token) ELSE <<token>>)
                 \o Expansion(Tail(calls))

\* the raw position the token of call j starts at, counted from the output
StartOf(j) == j + Cardinality({k \in 1 .. j - 1 : out[k].token \in Composite})

\* C17: token conservation.  Whatever the raw stream (lead tokens anywhere,
\* one after another, or directly before end-of-input), replacing every
\* composite token base_yylex has returned by its (lead, continuation) pair
\* gives the raw kinds in order, with no raw token lost, doubled or moved:
\* all raw tokens pulled except a buffered one while the parse runs, the
\* whole stream once end-of-input has been returned; and every token
\* returned that is not a composite carries the value and the location of
\* the raw token it came from.
C17_TokenConservation ==
    LET expanded == Expansion(out)
    IN  /\ Len(expanded) <= Len(raw)
        /\ expanded = SubSeq(raw, 1, Len(expanded))
        /\ pc = "parsing" =>
               Len(expanded) = Len(raw) - (IF have_lookahead THEN 1 ELSE 0)
        /\ SawEOF => expanded = raw
        /\ \A j \in 1 .. Len(out) :
               out[j].token \notin Composite => Unchanged(j, StartOf(j))

\* end-of-input has been returned for a stream with two lead tokens one
\* after the other, the second of them merged
C17_Witness ==
    /\ SawEOF
    /\ Len(raw) = MaxTokens + 1
    /\ raw[1] \in LeadTokens
    /\ raw[2] \in LeadTokens
    /\ out[2].token \in Composite

\* C18 as stated: on every way out of raw_parser, the returns made inside
\* the PG_TRY block on grammar success and grammar failure included, the
\* handler PG_TRY installed has been removed (PG_exception_stack is again
\* what PG_TRY saved, as PG_END_TRY would leave it) before raw_parser
\* returns, so that no error raised after the return, or in a later
\* raw_parser call before its own PG_TRY, is delivered to the handler of an
\* invocation that has finished: once raw_parser has returned,
\* PG_exception_stack is the sigjmp_buf of none of the invocations so far.
C18_HandlerRemovedOnExit ==
    pc = "returned" => PG_exception_stack \notin 1 .. invocation

\* tokens in the lookahead buffer
Occupancy == IF have_lookahead THEN 1 ELSE 0

\* C19: between two base_yylex calls of a parse, the raw tokens pulled from
\* core_yylex minus the raw tokens the returned tokens stand for (1 for a
\* plain token, 2 for a composite) is the number of tokens in the lookahead
\* buffer, which is 0 or 1; the buffer is filled only right after a call
\* that returned an unmerged lead token (NULLS_P or WITH), the token in it
\* is never a continuation of that lead, and a filled buffer is used up by
\* the very next call.
C19_BufferAccounting ==
    pc = "parsing" =>
        /\ scanpos - Len(Expansion(out)) = Occupancy
        /\ have_lookahead =>
               /\ out # <<>>
               /\ out[Len(out)].token \in LeadTokens
               /\ out[Len(out)].kept
               /\ lookahead_token = raw[scanpos]
               /\ lookahead_token \notin Continuations(out[Len(out)].token)
        /\ \A j \in 1 .. Len(out) - 1 :
               /\ out[j].kept =>
                      /\ out[j + 1].buffered
                      /\ out[j + 1].pulls <= 1
                      /\ StartOf(j + 1) = out[j].last
               /\ out[j].kept <=> (out[j].token \in LeadTokens)

\* a lead token was returned unmerged, its probe was delivered by the next
\* call, and the buffer is filled again by a later lead token
C19_Witness ==
    /\ pc = "parsing"
    /\ Len(out) = 3
    /\ out[1].kept
    /\ out[2].buffered
    /\ out[2].pulls = 0
    /\ have_lookahead

\* core_yylex has handed out end-of-input
ScannerAtEnd == raw # <<>> /\ raw[Len(raw)] = YYEOF

\* C20: on a raw stream of n tokens, the closing end-of-input (token 0)
\* counted, a grammar that keeps asking is given end-of-input by base_yylex
\* in at most n calls, no call making more than two core_yylex calls; and,
\* the grammar asking no more once it has been given end-of-input,
\* core_yylex is never called again after it has returned end-of-input: an
\* end-of-input read as a probe waits in the buffer and is what the next
\* call returns.
C20_EndOfInputInBoundedCalls ==
    /\ \A j \in 1 .. Len(out) : out[j].pulls \in 0 .. 2
    /\ Len(out) <= Len(raw)
    /\ \A i \in 1 .. Len(raw) - 1 : raw[i] # YYEOF
    /\ (pc = "parsing" /\ ScannerAtEnd /\ ~SawEOF) =>
           (have_lookahead /\ lookahead_token = YYEOF)
    /\ SawEOF => (ScannerAtEnd /\ ~have_lookahead)

\* the longest stream, ending in a lead token: end-of-input was read as the
\* probe of that lead, waited in the buffer, and was returned by call n
C20_Witness ==
    /\ SawEOF
    /\ Len(raw) = MaxTokens + 1
    /\ Len(out) = Len(raw)
    /\ out[Len(out)].buffered
    /\ out[Len(out)].pulls = 0
    /\ out[Len(out) - 1].pulls = 2

=============================================================================
